---- MODULE Spec2Model ----
(***************************************************************************)
(* A model of the provider routing and job-completion subsystem of         *)
(* flux_generator:                                                         *)
(*   - ComfyUIProvider.wait_for_completion (push mode over the websocket,  *)
(*     poll mode over /history) and its caller execute_comfy_workflow;     *)
(*   - the status poll loop of FluxProvider._generate_bfl;                 *)
(*   - ImageProviderRouter.select_provider / generate.                     *)
(* Time is counted in poll intervals (one unit = the 0.5 s of              *)
(* time.sleep(0.5)).                                                       *)
(***************************************************************************)
EXTENDS Integers, Sequences, FiniteSets, TLC

(***************************************************************************)
(* Bounds of the model.                                                    *)
(***************************************************************************)
\* the wait timeout (300 s in the source) in poll intervals
Timeout == 3
\* the largest number of artifact descriptors of one job
MaxArtifacts == 2
\* the number of jobs the waiter is run on, one after the other
MaxRequests == 2

\* the largest number of nodes of a workflow graph
MaxNodes == 3

VARIABLES
    \* ---- comfyui_provider.py: module state and one wait_for_completion call
    WEBSOCKET_AVAILABLE, \* the import flag of the websocket package
    pc,                  \* the position of the waiter
    now,                 \* time.time(), in poll intervals
    start_time,          \* wait_for_completion's start_time
    ws_start,            \* _wait_for_completion_websocket's start_time
    connected,           \* the websocket is open
    job,                 \* the backend's history record of prompt_id
    event,               \* a completion event for prompt_id waits in the socket
    todo,                \* descriptors of the running retrieval loop still to fetch
    images,              \* the images list of the running retrieval loop
    ret,                 \* how wait_for_completion ended
    result,              \* execute_comfy_workflow's ImageGenerationResult
    \* ---- what was observed of the call (history of the run)
    mode,                \* the waiting mode: "none", "push", "poll"
    downgrades,          \* number of push-to-poll switches of this wait
    pushErr,             \* what push mode raised: "none", the call, or the exception of a message
    seen,                \* the status the last successful get_history showed
    retrieved,           \* per artifact, how often get_image returned it (2 = twice or more)
    fault,               \* a get_history or get_image call of poll mode raised
    lateQuery,           \* a get_history call was issued after the deadline
    reqNo,               \* number of the current job
    early,               \* the job ended while no socket of the wait was open
    prev,                \* summary of the previous job's wait
    \* ---- image_provider.py: the poll loop of one _generate_bfl call
    bflPc,               \* "idle", "submit", "alternatives", "poll" or "done"
    bfl_model,           \* the endpoint name model_map gives for self.model
    api_url,             \* the endpoint of the submission
    alt,                 \* the alternatives the for loop has still to visit
    contacted,           \* the endpoints posted to, in order
    answers,             \* what each of them answered
    polling_url,         \* the locator the accepted submission returned
    polled,              \* the locators the status queries were sent to
    attempt,             \* the loop's attempt counter
    bflJob,              \* the hosted job's record: "absent" until it appears, then its status
    bflLast,             \* what the last status query got: "none", an HTTP code, or an exception
    bflResult,           \* the ImageGenerationResult of the call
    \* ---- image_provider_router.py: the router and the adapter it shares
    providers,           \* the names registered in ImageProviderRouter.providers
    routing_rules,       \* the loaded routing configuration
    fluxModel,           \* FluxProvider.model of the registered Flux adapter
    rq,                  \* the requests in flight, per caller
    initPc,              \* _initialize_providers: the provider it is at, or "ready"
    env,                 \* what the router's construction finds: keys, packages, probe
    oaPc,                \* OpenAIImagesProvider.generate: "idle", "call" or "done"
    oaRequest,           \* the request object given to it
    oaGiven,             \* the fields the request had when the caller gave it
    oaResult,            \* the result it returns
    \* ---- comfyui_provider.py: one _inject_parameters call
    injPc,               \* "idle", "call" or "done"
    template,            \* the workflow graph as loaded, nodes in iteration order
    workflow_json,       \* the workflow graph the call works on
    args,                \* the arguments of the call
    \* ---- comfyui_provider.py: one generate call around it
    request,             \* the ImageGenerationRequest given to generate
    uploads,             \* number of upload_image calls of the request
    queued,              \* number of queue_prompt calls of the request
    genResult            \* the result generate returns before any job is queued

waitVars == <<WEBSOCKET_AVAILABLE, pc, now, start_time, ws_start, connected, job,
              event, todo, images, ret, result, mode, downgrades, pushErr,
              seen, retrieved, fault, lateQuery, reqNo, prev, early>>

bflVars == <<bflPc, attempt, bflJob, bflLast, bflResult, bfl_model, api_url, alt,
             contacted, answers, polling_url, polled>>

startVars == <<initPc, env>>

openaiVars == <<oaPc, oaRequest, oaGiven, oaResult>>

routerVars == <<providers, routing_rules, fluxModel, rq, startVars, openaiVars>>

injVars == <<injPc, template, workflow_json, args, request, uploads, queued, genResult>>

vars == <<waitVars, bflVars, routerVars, injVars>>

(***************************************************************************)
(* The backend's history of a job.                                         *)
(***************************************************************************)
Artifacts == 1..MaxArtifacts

Range(s) == {s[i] : i \in 1..Len(s)}

Iota(n) == [i \in 1..n |-> i]

\* prompt_data["outputs"]: the output nodes in iteration order, each with its
\* "images" list (a node without the key counts as an empty list); the
\* descriptors are numbered in that order.
OutputsOf(n) ==
    {<<Iota(n)>>} \cup
    (IF n >= 2 THEN {<<Iota(1), [i \in 1..(n - 1) |-> i + 1]>>} ELSE {})

pending == [status |-> "pending", hasOutputs |-> FALSE, outputs |-> <<>>]

\* the records a finished job can have: Ready with N descriptors, or an error
\* status, with or without the outputs of the nodes that ran before the error
Histories ==
    {[status |-> "success", hasOutputs |-> FALSE, outputs |-> <<>>]} \cup
    {[status |-> "success", hasOutputs |-> TRUE, outputs |-> o] :
        o \in UNION {OutputsOf(n) : n \in 0..MaxArtifacts}} \cup
    {[status |-> "error", hasOutputs |-> FALSE, outputs |-> <<>>],
     [status |-> "error", hasOutputs |-> TRUE, outputs |-> <<Iota(1)>>]}

RECURSIVE Flatten(_)
Flatten(outs) ==
    IF outs = <<>> THEN <<>> ELSE Head(outs) \o Flatten(Tail(outs))

\* the descriptors the two retrieval loops walk through
Descriptors(h) == IF h.hasOutputs THEN Flatten(h.outputs) ELSE <<>>

Bump(n) == IF n >= 2 THEN 2 ELSE n + 1

MaxNow == Timeout + 2

\* a blocking call takes no time or one unit
Durations == IF now < MaxNow THEN {0, 1} ELSE {0}

(***************************************************************************)
(* Messages of the event channel (what ws.recv() returns).                 *)
(***************************************************************************)
PromptId == "this"

NoData == [present |-> "missing", node |-> "none", prompt_id |-> "none"]

Msg(isStr, validJson, isObject, type, data) ==
    [isStr |-> isStr, validJson |-> validJson, isObject |-> isObject,
     type |-> type, data |-> data]

\* a binary preview frame
BinaryFrame == Msg(FALSE, FALSE, FALSE, "none", NoData)
\* text that json.loads rejects
BadJson == Msg(TRUE, FALSE, FALSE, "none", NoData)
\* JSON text that is not an object
JsonArray == Msg(TRUE, TRUE, FALSE, "none", NoData)
\* {"type": "status", ...}
StatusMsg == Msg(TRUE, TRUE, TRUE, "status", NoData)
\* {"type": "executing"} without "data"
ExecNoData == Msg(TRUE, TRUE, TRUE, "executing", NoData)
\* {"type": "executing", "data": null}
ExecNullData ==
    Msg(TRUE, TRUE, TRUE, "executing",
        [present |-> "null", node |-> "none", prompt_id |-> "none"])
\* {"type": "executing", "data": {"node": n, "prompt_id": p}}
Exec(n, p) ==
    Msg(TRUE, TRUE, TRUE, "executing",
        [present |-> "object", node |-> n, prompt_id |-> p])

\* the completion event of this job
CompletionEvent == Exec("none", PromptId)

\* what the channel can deliver besides the completion event of this job
Noise ==
    {BinaryFrame, BadJson, JsonArray, StatusMsg, ExecNoData, ExecNullData,
     Exec("n1", PromptId), Exec("none", "other")}

\* lines 571-580 of _wait_for_completion_websocket: what one received message
\* does to the receive loop: "continue", "break", or the exception it raises
OnMessage(m) ==
    IF ~m.isStr THEN "continue"
    ELSE IF ~m.validJson THEN "JSONDecodeError"
    ELSE IF ~m.isObject THEN "AttributeError"
    ELSE IF m.type = "executing"
         THEN IF m.data.present = "null" THEN "AttributeError"
              ELSE IF m.data.node = "none" /\ m.data.prompt_id = PromptId
                   THEN "break"
                   ELSE "continue"
    ELSE "continue"

(***************************************************************************)
(* Exception handlers.                                                     *)
(***************************************************************************)
\* a handler that catches the socket's own errors only and lets a refused
\* connection through
WebsocketExceptSocketOnly(e) == IF e = "connect" THEN "raise" ELSE "fallback"

\* wait_for_completion, lines 500-503: every Exception of push mode is logged
\* and the wait goes on in poll mode
WebsocketExcept(e) == "fallback"

\* handlers without the test for 404: every HTTPError is raised
PollExceptNo404(e) ==
    IF e \in {"HTTP404", "HTTP500"} THEN "raise" ELSE "continue"

\* wait_for_completion, lines 537-545: the handlers of one poll iteration
PollExcept(e) ==
    IF e \in {"HTTP404", "HTTP500"}
    THEN IF e = "HTTP404" THEN "continue" ELSE "raise"
    ELSE "continue"

\* the exceptions get_history and get_image raise in a poll iteration
PollErrors == {"HTTP404", "HTTP500", "URLError"}

(***************************************************************************)
(* execute_comfy_workflow, lines 198-242: the result made of the wait's    *)
(* outcome.                                                                *)
(***************************************************************************)
NoImagesMsg == "No images generated or timeout occurred"
TimeoutMsg == "Workflow execution timed out after 300 seconds"

ExecutionErrorMsg == "ComfyUI execution error"

\* str(e) of the exception that ended the wait
ExcStr(exc) ==
    IF exc = "TimeoutError" THEN TimeoutMsg
    ELSE IF exc = "ExecutionError" THEN ExecutionErrorMsg
    ELSE exc

\* execute_comfy_workflow without its handler: what the wait raises goes on
\* to the caller
ExecuteResultUnhandled(kind, exc, imgs) ==
    IF kind = "return"
    THEN IF imgs = <<>>
         THEN [success |-> FALSE, images |-> <<>>, error |-> NoImagesMsg]
         ELSE [success |-> TRUE, images |-> imgs, error |-> "none"]
    ELSE [exception |-> exc]

ExecuteResult(kind, exc, imgs) ==
    IF kind = "return"
    THEN IF imgs = <<>>
         THEN [success |-> FALSE, images |-> <<>>, error |-> NoImagesMsg]
         ELSE [success |-> TRUE, images |-> imgs, error |-> "none"]
    ELSE [success |-> FALSE, images |-> <<>>, error |-> ExcStr(exc)]

NoRet == [kind |-> "none", exc |-> "none", images |-> <<>>]
NoResult == [success |-> FALSE, images |-> <<>>, error |-> "none"]
NoPrev == [cause |-> "none", mode |-> "none", error |-> "none"]

(***************************************************************************)
(* One wait_for_completion call, as execute_comfy_workflow makes it after  *)
(* queue_prompt.                                                           *)
(***************************************************************************)
WaitInit ==
    /\ WEBSOCKET_AVAILABLE \in BOOLEAN
    /\ pc = "start"
    /\ now = 0
    /\ start_time = 0
    /\ ws_start = 0
    /\ connected = FALSE
    /\ job = pending
    /\ event = FALSE
    /\ todo = <<>>
    /\ images = <<>>
    /\ ret = NoRet
    /\ result = NoResult
    /\ mode = "none"
    /\ downgrades = 0
    /\ pushErr = "none"
    /\ seen = "none"
    /\ retrieved = [a \in Artifacts |-> 0]
    /\ fault = FALSE
    /\ lateQuery = FALSE
    /\ reqNo = 1
    /\ early = FALSE
    /\ prev = NoPrev

\* wait_for_completion returns or raises; execute_comfy_workflow makes the
\* result of it (lines 199-242)
Finish(kind, exc, imgs) ==
    /\ pc' = "done"
    /\ ret' = [kind |-> kind, exc |-> exc, images |-> imgs]
    /\ result' = ExecuteResult(kind, exc, imgs)
    /\ todo' = <<>>
    /\ images' = <<>>

\* the backend finishes the job; a completion event reaches only a socket that is
\* open by then (a failed job need not send one)
BackendFinish ==
    /\ pc \notin {"unqueued", "done"}
    /\ job = pending
    /\ \E h \in Histories :
        /\ job' = h
        /\ event' \in (IF connected
                       THEN (IF h.status = "success" THEN {TRUE} ELSE {TRUE, FALSE})
                       ELSE {FALSE})
    /\ early' = ~connected
    /\ UNCHANGED <<WEBSOCKET_AVAILABLE, pc, now, start_time, ws_start, connected,
                   todo, images, ret, result, mode, downgrades, pushErr, seen,
                   retrieved, fault, lateQuery, reqNo, prev>>
    /\ UNCHANGED <<bflVars, routerVars, injVars>>

\* lines 496-506: start_time is taken; push mode first when the package is there
WaitStart ==
    /\ pc = "start"
    /\ start_time' = now
    /\ IF WEBSOCKET_AVAILABLE
       THEN pc' = "ws_connect" /\ mode' = "push"
       ELSE pc' = "poll_loop" /\ mode' = "poll"
    /\ UNCHANGED <<WEBSOCKET_AVAILABLE, now, ws_start, connected, job, event, todo,
                   images, ret, result, downgrades, pushErr, seen, retrieved,
                   fault, lateQuery, reqNo, prev, early>>
    /\ UNCHANGED <<bflVars, routerVars, injVars>>

\* an exception leaves _wait_for_completion_websocket: finally closes the socket
\* (lines 601-605) and wait_for_completion handles it (lines 502-503)
PushRaise(place) ==
    /\ connected' = FALSE
    /\ event' = FALSE
    /\ pushErr' = place
    /\ IF WebsocketExcept(place) = "fallback"
       THEN /\ pc' = "poll_loop"
            /\ mode' = "poll"
            /\ downgrades' = downgrades + 1
            /\ todo' = <<>>
            /\ images' = <<>>
            /\ UNCHANGED <<ret, result>>
       ELSE /\ Finish("raise", place, <<>>)
            /\ UNCHANGED <<mode, downgrades>>

\* line 565: ws.connect, then line 567 takes the push loop's start_time
WsConnect ==
    /\ pc = "ws_connect"
    /\ \E d \in Durations :
        /\ now' = now + d
        /\ \/ /\ connected' = TRUE
              /\ ws_start' = now + d
              /\ pc' = "ws_loop"
              /\ UNCHANGED <<event, todo, images, ret, result, mode, downgrades,
                             pushErr>>
           \/ /\ PushRaise("connect")
              /\ UNCHANGED ws_start
    /\ UNCHANGED <<WEBSOCKET_AVAILABLE, start_time, job, seen, retrieved, fault,
                   lateQuery, reqNo, prev, early>>
    /\ UNCHANGED <<bflVars, routerVars, injVars>>

\* what the socket can deliver now
Deliverable == Noise \cup (IF event THEN {CompletionEvent} ELSE {})

\* lines 568-580: the loop test and one ws.recv with the handling of its
\* message; recv(timeout=timeout) on a channel that delivers nothing raises
\* after the timeout
WsRecv ==
    /\ pc = "ws_loop"
    /\ now - ws_start < Timeout
    /\ \/ /\ now' = now + Timeout
          /\ PushRaise("WebSocketTimeoutException")
       \/ \E d \in Durations :
        /\ now' = now + d
        /\ \/ \E m \in Deliverable :
                /\ event' = (event /\ m # CompletionEvent)
                /\ \/ /\ OnMessage(m) = "continue"
                      /\ pc' = "ws_loop"
                      /\ UNCHANGED <<connected, todo, images, ret, result, mode,
                                     downgrades, pushErr>>
                   \/ /\ OnMessage(m) = "break"
                      /\ pc' = "ws_history"
                      /\ UNCHANGED <<connected, todo, images, ret, result, mode,
                                     downgrades, pushErr>>
                   \/ /\ OnMessage(m) \notin {"continue", "break"}
                      /\ PushRaise(OnMessage(m))
           \/ PushRaise("recv")
    /\ UNCHANGED <<WEBSOCKET_AVAILABLE, start_time, ws_start, job, seen, retrieved,
                   fault, lateQuery, reqNo, prev, early>>
    /\ UNCHANGED <<bflVars, routerVars, injVars>>

\* line 568: the loop test fails after the timeout and the loop is left
WsLoopExit ==
    /\ pc = "ws_loop"
    /\ ~(now - ws_start < Timeout)
    /\ pc' = "ws_history"
    /\ UNCHANGED <<WEBSOCKET_AVAILABLE, now, start_time, ws_start, connected, job,
                   event, todo, images, ret, result, mode, downgrades, pushErr,
                   seen, retrieved, fault, lateQuery, reqNo, prev, early>>
    /\ UNCHANGED <<bflVars, routerVars, injVars>>

\* the socket is closed on the way out of _wait_for_completion_websocket
WsReturn(imgs) ==
    /\ Finish("return", "none", imgs)
    /\ connected' = FALSE
    /\ event' = FALSE
    /\ UNCHANGED <<mode, downgrades, pushErr>>

\* lines 583-599: get_history after the loop; the outputs are walked through
WsHistory ==
    /\ pc = "ws_history"
    /\ lateQuery' = (lateQuery \/ now > start_time + Timeout)
    /\ \E d \in Durations :
        /\ now' = now + d
        /\ \/ /\ PushRaise("history")
              /\ UNCHANGED seen
           \/ /\ seen' = (IF job = pending THEN seen ELSE job.status)
              /\ IF Descriptors(job) = <<>>
                 THEN WsReturn(<<>>)
                 ELSE /\ pc' = "ws_fetch"
                      /\ todo' = Descriptors(job)
                      /\ images' = <<>>
                      /\ UNCHANGED <<connected, event, ret, result, mode,
                                     downgrades, pushErr>>
    /\ UNCHANGED <<WEBSOCKET_AVAILABLE, start_time, ws_start, job, retrieved,
                   fault, reqNo, prev, early>>
    /\ UNCHANGED <<bflVars, routerVars, injVars>>

\* lines 591-597: one get_image of the push mode's retrieval loop
WsFetch ==
    /\ pc = "ws_fetch"
    /\ \/ /\ PushRaise("image")
          /\ UNCHANGED retrieved
       \/ /\ retrieved' = [retrieved EXCEPT ![Head(todo)] = Bump(@)]
          /\ IF Tail(todo) = <<>>
             THEN WsReturn(Append(images, Head(todo)))
             ELSE /\ todo' = Tail(todo)
                  /\ images' = Append(images, Head(todo))
                  /\ UNCHANGED <<pc, connected, event, ret, result, mode,
                                 downgrades, pushErr>>
    /\ UNCHANGED <<WEBSOCKET_AVAILABLE, now, start_time, ws_start, job, seen,
                   fault, lateQuery, reqNo, prev, early>>
    /\ UNCHANGED <<bflVars, routerVars, injVars>>

\* an exception inside the try block of a poll iteration (lines 537-545)
PollRaise(e) ==
    IF PollExcept(e) = "continue"
    THEN /\ pc' = "poll_loop"
         /\ todo' = <<>>
         /\ images' = <<>>
         /\ UNCHANGED <<ret, result>>
    ELSE Finish("raise", e, <<>>)

\* time.sleep(0.5): the unit of time
PollInterval == 1

\* lines 506-535: the loop test, the sleep, get_history and the status test
PollIteration ==
    /\ pc = "poll_loop"
    /\ now - start_time < Timeout
    /\ \E d \in {0, 1} :
        /\ now' = (IF now + PollInterval + d > MaxNow
                   THEN MaxNow ELSE now + PollInterval + d)
        /\ lateQuery' = (lateQuery \/ now + PollInterval > start_time + Timeout)
        /\ \/ \E e \in PollErrors :
                /\ fault' = TRUE
                /\ PollRaise(e)
                /\ UNCHANGED seen
           \/ /\ UNCHANGED fault
              /\ seen' = (IF job = pending THEN seen ELSE job.status)
              /\ IF job = pending
                 THEN /\ pc' = "poll_loop"
                      /\ UNCHANGED <<todo, images, ret, result>>
                 ELSE IF job.status = "error"
                 THEN PollRaise("ExecutionError")
                 ELSE IF Descriptors(job) = <<>>
                 THEN /\ pc' = "poll_loop"
                      /\ UNCHANGED <<todo, images, ret, result>>
                 ELSE /\ pc' = "poll_fetch"
                      /\ todo' = Descriptors(job)
                      /\ images' = <<>>
                      /\ UNCHANGED <<ret, result>>
    /\ UNCHANGED <<WEBSOCKET_AVAILABLE, start_time, ws_start, connected, job, event,
                   mode, downgrades, pushErr, retrieved, reqNo, prev, early>>
    /\ UNCHANGED <<bflVars, routerVars, injVars>>

\* lines 526-535: one get_image of the poll mode's retrieval loop; the images
\* are returned after the last one
PollFetch ==
    /\ pc = "poll_fetch"
    /\ \/ \E e \in PollErrors :
            /\ fault' = TRUE
            /\ PollRaise(e)
            /\ UNCHANGED retrieved
       \/ /\ UNCHANGED fault
          /\ retrieved' = [retrieved EXCEPT ![Head(todo)] = Bump(@)]
          /\ IF Tail(todo) = <<>>
             THEN Finish("return", "none", Append(images, Head(todo)))
             ELSE /\ todo' = Tail(todo)
                  /\ images' = Append(images, Head(todo))
                  /\ UNCHANGED <<pc, ret, result>>
    /\ UNCHANGED <<WEBSOCKET_AVAILABLE, now, start_time, ws_start, connected, job,
                   event, mode, downgrades, pushErr, seen, lateQuery, reqNo, prev, early>>
    /\ UNCHANGED <<bflVars, routerVars, injVars>>

\* line 547: the loop test fails and TimeoutError is raised
PollTimeout ==
    /\ pc = "poll_loop"
    /\ ~(now - start_time < Timeout)
    /\ Finish("raise", "TimeoutError", <<>>)
    /\ UNCHANGED <<WEBSOCKET_AVAILABLE, now, start_time, ws_start, connected, job,
                   event, mode, downgrades, pushErr, seen, retrieved, fault,
                   lateQuery, reqNo, prev, early>>
    /\ UNCHANGED <<bflVars, routerVars, injVars>>

(***************************************************************************)
(* What a finished wait was about.                                         *)
(***************************************************************************)
Done == pc = "done"

\* nothing raised in push mode and every call of poll mode answered
CleanRun == ~fault /\ pushErr = "none"

\* the job reached no terminal status while the wait lasted
TimedOutJob == Done /\ job = pending /\ CleanRun

\* the backend reported the job as failed, and the waiter was shown that
ErroredJob == Done /\ seen = "error" /\ CleanRun

Summary ==
    IF TimedOutJob THEN [cause |-> "timeout", mode |-> mode, error |-> result.error]
    ELSE IF ErroredJob THEN [cause |-> "error", mode |-> mode, error |-> result.error]
    ELSE NoPrev

\* the next request: execute_comfy_workflow queues another job and waits for it
NextRequest ==
    /\ pc = "done"
    /\ reqNo < MaxRequests
    /\ reqNo' = reqNo + 1
    /\ early' = FALSE
    /\ prev' = Summary
    /\ pc' = "start"
    /\ now' = 0
    /\ start_time' = 0
    /\ ws_start' = 0
    /\ connected' = FALSE
    /\ job' = pending
    /\ event' = FALSE
    /\ todo' = <<>>
    /\ images' = <<>>
    /\ ret' = NoRet
    /\ result' = NoResult
    /\ mode' = "none"
    /\ downgrades' = 0
    /\ pushErr' = "none"
    /\ seen' = "none"
    /\ retrieved' = [a \in Artifacts |-> 0]
    /\ fault' = FALSE
    /\ lateQuery' = FALSE
    /\ UNCHANGED WEBSOCKET_AVAILABLE
    /\ UNCHANGED <<bflVars, routerVars, injVars>>

(***************************************************************************)
(* FluxProvider._generate_bfl, lines 428-506: the status poll loop that    *)
(* follows an acknowledged submission (polling_url received).              *)
(***************************************************************************)
max_attempts == 120

BflStatuses == {"Pending", "Ready", "Error", "Failed"}

\* result_obj.get("sample") of a Ready job: missing, one URL, or a list
Samples == {<<>>, <<"url1">>, <<"url1", "url2">>}

BflFailure(msg) == [success |-> FALSE, images |-> <<>>, error |-> msg]

NoBflResult == [success |-> FALSE, images |-> <<>>, error |-> "none"]

BflIdle ==
    /\ bflPc = "idle"
    /\ attempt = 0
    /\ bflJob = "absent"
    /\ bflLast = "none"
    /\ bflResult = NoBflResult
    /\ bfl_model = "flux-pro"
    /\ api_url = "flux-pro"
    /\ alt = <<>>
    /\ contacted = <<>>
    /\ answers = <<>>
    /\ polling_url = "none"
    /\ polled = {}

\* the state after line 430: the job is submitted, attempt = 0
BflInit ==
    /\ bflPc = "poll"
    /\ attempt = 0
    /\ bflJob = "absent"
    /\ bflLast = "none"
    /\ bflResult = NoBflResult
    /\ bfl_model = "flux-pro"
    /\ api_url = "flux-pro"
    /\ alt = <<>>
    /\ contacted = <<"flux-pro">>
    /\ answers = <<"200">>
    /\ polling_url = "flux-pro"
    /\ polled = {}

\* the hosted backend: the job's record appears, then the job ends
BflBackendStep ==
    /\ bflPc = "poll"
    /\ \/ bflJob = "absent" /\ bflJob' = "Pending"
       \/ bflJob = "Pending" /\ bflJob' \in {"Ready", "Error", "Failed"}
    /\ UNCHANGED <<bflPc, attempt, bflLast, bflResult>>
    /\ UNCHANGED <<bfl_model, api_url, alt, contacted, answers, polling_url, polled>>
    /\ UNCHANGED <<waitVars, routerVars, injVars>>

\* what a GET of polling_url can answer now: 404 while the record is absent,
\* 200 with the status afterwards, a server error or no answer at any time
BflAnswers ==
    {"500", "ConnectionError"} \cup (IF bflJob = "absent" THEN {"404"} ELSE {"200"})

\* a test that takes "Error" alone for the failed job
BflFailedErrorOnly(status) == status = "Error"

\* line 469: status in ["Error", "Failed"]
BflFailed(status) == status \in {"Error", "Failed"}

\* response.raise_for_status() (line 440): whether it raises HTTPError
RaiseForStatus(code) == code \in {"404", "500"}

\* lines 432-488 with the handler of lines 498-506: one iteration of the loop.
\* The return after the loop (lines 490-496) is never reached: the loop's last
\* iteration returns at line 482.
BflPoll ==
    /\ bflPc = "poll"
    /\ attempt < max_attempts
    /\ attempt' = attempt + 1
    /\ \E a \in BflAnswers :
        /\ bflLast' = a
        /\ IF a = "ConnectionError" \/ RaiseForStatus(a)
           THEN /\ bflPc' = "done"
                /\ bflResult' = BflFailure("BFL API request error")
           ELSE IF bflJob = "Ready"
           THEN /\ bflPc' = "done"
                /\ \E smp \in Samples :
                     bflResult' = [success |-> TRUE, images |-> smp, error |-> "none"]
           ELSE IF BflFailed(bflJob)
           THEN /\ bflPc' = "done"
                /\ bflResult' = BflFailure("BFL API error")
           ELSE IF attempt + 1 >= max_attempts
           THEN /\ bflPc' = "done"
                /\ bflResult' = BflFailure("BFL API timeout - generation took too long")
           ELSE UNCHANGED <<bflPc, bflResult>>
    /\ polled' = polled \cup {polling_url}
    /\ UNCHANGED <<bflJob, bfl_model, api_url, alt, contacted, answers, polling_url>>
    /\ UNCHANGED <<waitVars, routerVars, injVars>>

BflNext ==
    \/ BflBackendStep
    \/ BflPoll

(***************************************************************************)
(* FluxProvider._generate_bfl, lines 282-297 and 364-426: the submission   *)
(* of the job, with the alternative endpoints after a 404.                 *)
(***************************************************************************)
\* model_map (lines 282-292) with the default of line 295
ModelMap(model) ==
    IF model \in {"flux-schnell", "flux1.1-schnell", "flux-dev", "flux1.1-dev"}
    THEN "flux-dev"
    ELSE IF model \in {"flux-pro", "flux1.1-pro"} THEN "flux-pro"
    ELSE IF model \in {"flux-kontext", "flux-kontext-pro"} THEN "flux-kontext-pro"
    ELSE IF model = "flux-kontext-max" THEN "flux-kontext-max"
    ELSE "flux-pro"

\* the values of self.model the submission is started with
SelfModels == {"flux-schnell", "flux1.1-pro", "flux-kontext", "flux-kontext-max", "custom"}

\* lines 370-390: the alternative endpoints of the model's family (the host
\* prefix https://api.bfl.ai/ is left out of every endpoint)
Alternatives(m) ==
    IF m \in {"flux-kontext-pro", "flux-kontext-max"}
    THEN <<"flux-kontext-pro", "flux-kontext-max", "v1/flux-kontext-pro">>
    ELSE IF m = "flux-pro"
    THEN <<"flux-pro-1.1", "flux-pro", "v1/flux-pro-1.1">>
    ELSE IF m = "flux-dev"
    THEN <<"flux-dev", "v1/flux-dev">>
    ELSE <<>>

\* what a POST to an endpoint can give: a status code, or no response
PostAnswers == {"200", "404", "401", "ConnectionError"}

\* a test no answer passes: the loop over the endpoints stops at none
IsSuccessNever(code) == FALSE

\* line 398: alt_response.status_code in [200, 201, 202]
IsSuccess(code) == code = "200"

\* lines 394-405: whether the for loop goes on to the next alternative after
\* this answer of an alternative (a response that is no success, or an
\* exception of the post)
AltGoesOn(code) == ~IsSuccess(code)

\* a submission that polls at the primary endpoint's locator whichever
\* endpoint accepted the job
LocatorOfPrimary(url, primary) == primary

\* lines 396-400 and 423: the response kept is the accepting endpoint's, and
\* its polling_url is the locator
LocatorOf(url, primary) == url

\* lines 416-426: the accepted submission: its polling_url, or ValueError
Accepted(url, hasUrl) ==
    IF hasUrl
    THEN /\ bflPc' = "poll"
         /\ polling_url' = LocatorOf(url, contacted'[1])
         /\ UNCHANGED bflResult
    ELSE /\ bflPc' = "done"
         /\ bflResult' = BflFailure("No polling_url received from BFL API")
         /\ UNCHANGED polling_url

SubmitInit ==
    /\ bflPc = "submit"
    /\ attempt = 0
    /\ bflJob = "absent"
    /\ bflLast = "none"
    /\ bflResult = NoBflResult
    /\ \E model \in SelfModels :
          /\ bfl_model = ModelMap(model)
          /\ api_url = ModelMap(model)
    /\ alt = <<>>
    /\ contacted = <<>>
    /\ answers = <<>>
    /\ polling_url = "none"
    /\ polled = {}

\* line 367, and lines 368-392 after a 404: the post to the primary endpoint
SubmitPrimary ==
    /\ bflPc = "submit"
    /\ \E a \in PostAnswers, hasUrl \in BOOLEAN :
        /\ contacted' = <<api_url>>
        /\ answers' = <<a>>
        /\ IF a = "404"
           THEN /\ bflPc' = "alternatives"
                /\ alt' = Alternatives(bfl_model)
                /\ UNCHANGED <<polling_url, bflResult>>
           ELSE IF IsSuccess(a)
           THEN Accepted(api_url, hasUrl) /\ UNCHANGED alt
           ELSE /\ bflPc' = "done"
                /\ bflResult' = BflFailure("BFL API request error")
                /\ UNCHANGED <<alt, polling_url>>
    /\ UNCHANGED <<attempt, bflJob, bflLast, bfl_model, api_url, polled>>
    /\ UNCHANGED <<waitVars, routerVars, injVars>>

\* lines 393-405: one iteration of the loop over the alternatives
SubmitAlternative ==
    /\ bflPc = "alternatives"
    /\ alt # <<>>
    /\ alt' = Tail(alt)
    /\ IF Head(alt) = api_url
       THEN UNCHANGED <<bflPc, api_url, contacted, answers, polling_url, bflResult>>
       ELSE \E a \in PostAnswers, hasUrl \in BOOLEAN :
            /\ contacted' = Append(contacted, Head(alt))
            /\ answers' = Append(answers, a)
            /\ IF IsSuccess(a)
               THEN /\ api_url' = Head(alt)
                    /\ Accepted(Head(alt), hasUrl)
               ELSE IF AltGoesOn(a)
               THEN UNCHANGED <<bflPc, api_url, polling_url, bflResult>>
               ELSE /\ bflPc' = "done"
                    /\ bflResult' = BflFailure("BFL API request error")
                    /\ UNCHANGED <<api_url, polling_url>>
    /\ UNCHANGED <<attempt, bflJob, bflLast, bfl_model, polled>>
    /\ UNCHANGED <<waitVars, routerVars, injVars>>

\* lines 407-409: no alternative accepted the job, the first 404 is raised
SubmitExhausted ==
    /\ bflPc = "alternatives"
    /\ alt = <<>>
    /\ bflPc' = "done"
    /\ bflResult' = BflFailure("BFL API request error")
    /\ UNCHANGED <<attempt, bflJob, bflLast, bfl_model, api_url, alt, contacted,
                   answers, polling_url, polled>>
    /\ UNCHANGED <<waitVars, routerVars, injVars>>

SubmitNext ==
    \/ SubmitPrimary
    \/ SubmitAlternative
    \/ SubmitExhausted
    \/ BflBackendStep
    \/ BflPoll

(***************************************************************************)
(* ImageProviderRouter: select_provider and generate, with the adapters    *)
(* the registry shares among the callers.                                  *)
(***************************************************************************)
Names == {"openai", "flux", "comfyui"}

Styles == {"fast_draft", "brand_layout"}

\* the callers that hand requests to the one router
Callers == {1, 2}

\* one entry of feature_routing or style_routing
Rule(p, hasModel, m) ==
    [present |-> TRUE, provider |-> p, hasModel |-> hasModel, model |-> m]

NoRule == [present |-> FALSE, provider |-> "none", hasModel |-> FALSE, model |-> "none"]

\* _get_default_routing_config, lines 54-119
DefaultRouting ==
    [default_provider |-> "comfyui",
     img2img |-> Rule("comfyui", TRUE, "sd_xl_base_1.0.safetensors"),
     inpainting |-> Rule("comfyui", TRUE, "sd_xl_base_1.0.safetensors"),
     style_routing |->
        [st \in Styles |->
            IF st = "fast_draft"
            THEN Rule("comfyui", TRUE, "sd_xl_base_1.0.safetensors")
            ELSE Rule("openai", FALSE, "none")],
     fallback_chain |-> <<"comfyui", "flux", "openai">>]

\* a configuration file that sends image editing and drafts to Flux, as
\* lines 227-231 and 253-254 of select_provider expect
FluxRouting ==
    [default_provider |-> "openai",
     img2img |-> Rule("flux", TRUE, "flux-kontext-max"),
     inpainting |-> Rule("flux", FALSE, "none"),
     style_routing |->
        [st \in Styles |->
            IF st = "fast_draft"
            THEN Rule("flux", TRUE, "flux-dev")
            ELSE Rule("openai", FALSE, "none")],
     fallback_chain |-> <<"comfyui", "flux", "openai">>]

\* a configuration file with Flux as the default, rules without "model" and no
\* inpainting rule
FluxDefaultRouting ==
    [default_provider |-> "flux",
     img2img |-> Rule("flux", FALSE, "none"),
     inpainting |-> NoRule,
     style_routing |->
        [st \in Styles |->
            IF st = "fast_draft"
            THEN Rule("flux", FALSE, "none")
            ELSE Rule("comfyui", FALSE, "none")],
     fallback_chain |-> <<"openai", "flux">>]

Configs == {DefaultRouting, FluxRouting, FluxDefaultRouting}

\* the requests: the provider override, whether a source image and a mask are
\* given, and the style tag
Requests ==
    [provider : {"none", "flux", "bogus"},
     source : BOOLEAN,
     mask : BOOLEAN,
     style : {"none"} \cup Styles]

NoRequest == [provider |-> "none", source |-> FALSE, mask |-> FALSE, style |-> "none"]

\* _initialize_providers, line 137: the model of the Flux adapter (host bfl)
DefaultFluxModel == "flux-pro"

\* the model attribute of each adapter class
ModelOf(name, fm) ==
    IF name = "flux" THEN fm
    ELSE IF name = "openai" THEN "dall-e-3"
    ELSE "comfyui-local"

NewSlot ==
    [pc |-> "new", req |-> NoRequest, provider |-> "None", override |-> "none",
     alone |-> FALSE, usedModel |-> "none", error |-> "none"]

\* select_provider, lines 215-260: the model the shared Flux adapter has after
\* the call (lines 227-230 and 253-254 assign provider.model)
SelectModel(req, provs, rules, fm) ==
    IF req.provider # "none" THEN fm
    ELSE IF req.source /\ rules.img2img.present /\ rules.img2img.provider \in provs
    THEN IF rules.img2img.provider = "flux"
         THEN (IF rules.img2img.hasModel THEN rules.img2img.model
               ELSE "flux-kontext-pro")
         ELSE fm
    ELSE IF req.mask /\ rules.inpainting.present /\ rules.inpainting.provider \in provs
    THEN fm
    ELSE IF /\ req.style # "none"
            /\ rules.style_routing[req.style].present
            /\ rules.style_routing[req.style].provider \in provs
    THEN IF /\ rules.style_routing[req.style].provider = "flux"
            /\ rules.style_routing[req.style].hasModel
         THEN rules.style_routing[req.style].model
         ELSE fm
    ELSE fm

\* select_provider, lines 227-230 and 253-254: the model the call assigns to
\* the Flux adapter, "none" when it assigns nothing
Override(req, provs, rules) ==
    IF req.provider # "none" THEN "none"
    ELSE IF req.source /\ rules.img2img.present /\ rules.img2img.provider \in provs
    THEN IF rules.img2img.provider = "flux"
         THEN (IF rules.img2img.hasModel THEN rules.img2img.model
               ELSE "flux-kontext-pro")
         ELSE "none"
    ELSE IF req.mask /\ rules.inpainting.present /\ rules.inpainting.provider \in provs
    THEN "none"
    ELSE IF /\ req.style # "none"
            /\ rules.style_routing[req.style].present
            /\ rules.style_routing[req.style].provider \in provs
            /\ rules.style_routing[req.style].provider = "flux"
            /\ rules.style_routing[req.style].hasModel
    THEN rules.style_routing[req.style].model
    ELSE "none"

\* a select_provider that looks at the style rule before the feature rules
SelectProviderStyleFirst(req, provs, rules) ==
    IF req.provider # "none"
    THEN (IF req.provider \in provs THEN req.provider ELSE "None")
    ELSE IF /\ req.style # "none"
            /\ rules.style_routing[req.style].present
            /\ rules.style_routing[req.style].provider \in provs
    THEN rules.style_routing[req.style].provider
    ELSE IF req.source /\ rules.img2img.present /\ rules.img2img.provider \in provs
    THEN rules.img2img.provider
    ELSE IF req.mask /\ rules.inpainting.present /\ rules.inpainting.provider \in provs
    THEN rules.inpainting.provider
    ELSE IF rules.default_provider \in provs THEN rules.default_provider
    ELSE "None"

\* select_provider, lines 215-260: the name of the provider returned, "None"
\* when it returns None
SelectProvider(req, provs, rules) ==
    IF req.provider # "none"
    THEN (IF req.provider \in provs THEN req.provider ELSE "None")
    ELSE IF req.source /\ rules.img2img.present /\ rules.img2img.provider \in provs
    THEN rules.img2img.provider
    ELSE IF req.mask /\ rules.inpainting.present /\ rules.inpainting.provider \in provs
    THEN rules.inpainting.provider
    ELSE IF /\ req.style # "none"
            /\ rules.style_routing[req.style].present
            /\ rules.style_routing[req.style].provider \in provs
    THEN rules.style_routing[req.style].provider
    ELSE IF rules.default_provider \in provs THEN rules.default_provider
    ELSE "None"

\* generate, lines 275-280: the first registered provider of the fallback chain
RECURSIVE FirstRegistered(_, _)
FirstRegistered(chain, provs) ==
    IF chain = <<>> THEN "None"
    ELSE IF Head(chain) \in provs THEN Head(chain)
    ELSE FirstRegistered(Tail(chain), provs)

\* a generate that takes the default provider's entry without looking whether
\* the registry has it
DispatchUnchecked(req, provs, rules) ==
    IF SelectProvider(req, provs, rules) # "None"
    THEN SelectProvider(req, provs, rules)
    ELSE rules.default_provider

\* generate, lines 272-280: the provider the request is dispatched to
Dispatch(req, provs, rules) ==
    IF SelectProvider(req, provs, rules) # "None"
    THEN SelectProvider(req, provs, rules)
    ELSE FirstRegistered(rules.fallback_chain, provs)

(***************************************************************************)
(* ImageProviderRouter._initialize_providers, lines 121-164, with          *)
(* _check_comfyui_server, lines 166-203.                                   *)
(***************************************************************************)
\* what urlopen gives for one endpoint of the probe: an answer, URLError or
\* HTTPError, or a timeout while the answer is read (no URLError)
ProbeAnswers == {"ok", "URLError", "HTTPError", "timeout"}

\* the three endpoints of lines 181-185
Endpoints == 1..3

\* what the construction of the router can find
Envs ==
    [openai_key : BOOLEAN,        \* config.get_openai_api_key() is set
     openai_raises : BOOLEAN,     \* OpenAIImagesProvider(...) raises
     flux_key : BOOLEAN,          \* config.get_flux_api_key() is set
     flux_raises : BOOLEAN,       \* FluxProvider(...) raises
     comfy_import : BOOLEAN,      \* COMFYUI_AVAILABLE
     comfy_raises : BOOLEAN,      \* ComfyUIProvider(...) raises
     probe : [Endpoints -> ProbeAnswers]]

NoEnv ==
    [openai_key |-> FALSE, openai_raises |-> FALSE, flux_key |-> FALSE,
     flux_raises |-> FALSE, comfy_import |-> FALSE, comfy_raises |-> FALSE,
     probe |-> [e \in Endpoints |-> "URLError"]]

\* a probe that asks the first endpoint only
CheckComfyuiServerFirstOnly(got) == got # <<>> /\ Head(got) = "ok"

\* lines 187-203: the endpoints are asked in order; the first answer gives
\* True, URLError and HTTPError go on to the next endpoint, any other
\* exception ends the probe with False
RECURSIVE CheckComfyuiServer(_)
CheckComfyuiServer(got) ==
    IF got = <<>> THEN FALSE
    ELSE IF Head(got) = "ok" THEN TRUE
    ELSE IF Head(got) \in {"URLError", "HTTPError"}
         THEN CheckComfyuiServer(Tail(got))
    ELSE FALSE

\* a provider block without its handler: the constructor's exception leaves
\* _initialize_providers
InitExceptNone(name) == "raise"

\* lines 128-129, 145-146, 163-164: the exception is logged, the next
\* provider's block follows
InitExcept(name) == "continue"

\* one provider block: the check, then the constructor inside try
InitializeProvider(name, checked, raises, next) ==
    IF ~checked
    THEN /\ initPc' = next
         /\ UNCHANGED providers
    ELSE IF raises
    THEN /\ initPc' = (IF InitExcept(name) = "continue" THEN next ELSE "crashed")
         /\ UNCHANGED providers
    ELSE /\ initPc' = next
         /\ providers' = providers \cup {name}

StartIdle ==
    /\ initPc = "ready"
    /\ env = NoEnv

\* __init__, lines 32-37: the registry is empty before _initialize_providers
StartInit ==
    /\ initPc = "openai"
    /\ env \in Envs
    /\ providers = {}

\* lines 124-129
InitializeOpenAI ==
    /\ initPc = "openai"
    /\ InitializeProvider("openai", env.openai_key, env.openai_raises, "flux")
    /\ UNCHANGED <<routing_rules, fluxModel, rq, env, openaiVars>>
    /\ UNCHANGED <<waitVars, bflVars, injVars>>

\* lines 132-146
InitializeFlux ==
    /\ initPc = "flux"
    /\ InitializeProvider("flux", env.flux_key, env.flux_raises, "comfyui")
    /\ UNCHANGED <<routing_rules, fluxModel, rq, env, openaiVars>>
    /\ UNCHANGED <<waitVars, bflVars, injVars>>

\* lines 149-164
InitializeComfyUI ==
    /\ initPc = "comfyui"
    /\ InitializeProvider("comfyui",
          env.comfy_import /\ CheckComfyuiServer(env.probe),
          env.comfy_raises, "ready")
    /\ UNCHANGED <<routing_rules, fluxModel, rq, env, openaiVars>>
    /\ UNCHANGED <<waitVars, bflVars, injVars>>

StartNext ==
    \/ InitializeOpenAI
    \/ InitializeFlux
    \/ InitializeComfyUI

(***************************************************************************)
(* OpenAIImagesProvider.generate, image_provider.py lines 105-157.         *)
(***************************************************************************)
\* the requests given to the adapter (sizes in pixels)
OpenAIRequests ==
    [prompt : {"a cat"},
     width : {512, 1024, 1792},
     height : {512, 1024, 1792},
     style : {"None", "photoreal", "fast_draft"},
     provider : {"None", "openai"}]

NoOpenAIRequest ==
    [prompt |-> "a cat", width |-> 1024, height |-> 1024, style |-> "None",
     provider |-> "None"]

NoOpenAIResult == [success |-> FALSE, images |-> <<>>, error |-> "none"]

\* lines 109-112: a size other than 1024x1024 is set to 1024x1024 in the
\* request object itself
AdjustSize(req) ==
    IF req.width # 1024 \/ req.height # 1024
    THEN [req EXCEPT !.width = 1024, !.height = 1024]
    ELSE req

\* what client.images.generate gives: its images, or an exception
OpenAIAnswers ==
    {[raises |-> FALSE, data |-> <<"url1">>],
     [raises |-> FALSE, data |-> <<>>],
     [raises |-> TRUE, data |-> <<>>]}

OpenAIIdle ==
    /\ oaPc = "idle"
    /\ oaRequest = NoOpenAIRequest
    /\ oaGiven = NoOpenAIRequest
    /\ oaResult = NoOpenAIResult

OpenAIInit ==
    /\ oaPc = "call"
    /\ oaRequest \in OpenAIRequests
    /\ oaGiven = oaRequest
    /\ oaResult = NoOpenAIResult

\* lines 105-157: the whole call
OpenAIGenerate ==
    /\ oaPc = "call"
    /\ oaPc' = "done"
    /\ oaRequest' = AdjustSize(oaRequest)
    /\ \E a \in OpenAIAnswers :
         oaResult' = (IF a.raises
                      THEN [success |-> FALSE, images |-> <<>>, error |-> "APIError"]
                      ELSE [success |-> TRUE, images |-> a.data, error |-> "none"])
    /\ UNCHANGED <<oaGiven, providers, routing_rules, fluxModel, rq, startVars>>
    /\ UNCHANGED <<waitVars, bflVars, injVars>>

OpenAINext == OpenAIGenerate

RouterInit ==
    /\ providers \in SUBSET Names
    /\ routing_rules \in Configs
    /\ fluxModel = DefaultFluxModel
    /\ rq = [c \in Callers |-> NewSlot]
    /\ StartIdle
    /\ OpenAIIdle

\* generate, lines 272-292, for caller c: select_provider, then the fallback
\* chain; without any provider the failure result is returned at once
RouterSelect(c) ==
    /\ rq[c].pc = "new"
    /\ \A b \in Callers : b < c => rq[b].pc # "new"
    /\ \E req \in Requests :
        LET name == Dispatch(req, providers, routing_rules)
            fm == SelectModel(req, providers, routing_rules, fluxModel)
        IN /\ fluxModel' = fm
           /\ rq' = [rq EXCEPT ![c] =
                  [pc |-> IF name = "None" THEN "done" ELSE "selected",
                   req |-> req,
                   provider |-> name,
                   override |-> Override(req, providers, routing_rules),
                   alone |-> \A b \in Callers \ {c} : rq[b].pc = "done",
                   usedModel |-> "none",
                   error |-> IF name = "None"
                             THEN "No available image providers" ELSE "none"]]
    /\ UNCHANGED <<providers, routing_rules, startVars, openaiVars>>
    /\ UNCHANGED <<waitVars, bflVars, injVars>>

\* generate, line 293: provider.generate(request); the Flux adapter reads
\* self.model when it builds the job (image_provider.py, line 295)
ProviderGenerate(c) ==
    /\ rq[c].pc = "selected"
    /\ rq' = [rq EXCEPT ![c].pc = "done",
                        ![c].usedModel = ModelOf(rq[c].provider, fluxModel)]
    /\ UNCHANGED <<providers, routing_rules, fluxModel, startVars, openaiVars>>
    /\ UNCHANGED <<waitVars, bflVars, injVars>>

RouterNext ==
    \/ \E c \in Callers : RouterSelect(c)
    \/ \E c \in Callers : ProviderGenerate(c)

(***************************************************************************)
(* ComfyUIProvider._inject_parameters, lines 244-370, and                  *)
(* find_node_by_class_type, lines 372-386.  A graph is the sequence of its *)
(* nodes in the iteration order of the dict; a node's id is its position.  *)
(***************************************************************************)
\* the value every field of a template has before the call
Tmpl == "template"

Node(type, fields) == [class_type |-> type, inputs |-> [f \in fields |-> Tmpl]]

\* the nodes the graphs are made of
NodeShapes ==
    {Node("CLIPTextEncode", {"text", "clip"}),
     Node("CLIPTextEncodeSDXL", {"text_g", "text_l"}),
     Node("CLIPTextEncodeSDXLRefiner", {"text"}),
     Node("KSampler", {"seed", "steps", "cfg", "denoise"}),
     Node("KSampler", {"steps", "cfg"}),
     Node("EmptyLatentImage", {"width", "height"}),
     Node("EmptySD3LatentImage", {"batch_size"}),
     Node("LoadImage", {"image"}),
     Node("AnySwitch", {"value"}),
     Node("Primitive", {"select"}),
     Node("Qwen2-VL-Instruct", {"query"}),
     Node("FluxGuidance", {"guidance"}),
     Node("SaveImage", {"filename_prefix"})}

Graphs == UNION {[1..n -> NodeShapes] : n \in 0..MaxNodes}

\* the arguments of a call; "None" is Python's None, "" the empty string
Arguments ==
    {[pos_prompt |-> "a cat", neg_prompt |-> neg, seed |-> seed, steps |-> "28",
      cfg |-> "3.5", width |-> "1024", height |-> "768",
      uploaded_filename |-> up, denoise_weight |-> dn,
      mode_switch_value |-> IF up = "None" THEN "T2I" ELSE "I2I"] :
        neg \in {"", "blurry"}, seed \in {"None", "7"},
        up \in {"None", "up.png"}, dn \in {"None", "0.7"}}

\* line 274
text_encode_types == <<"CLIPTextEncodeSDXL", "CLIPTextEncodeSDXLRefiner", "CLIPTextEncode">>

\* a find_node_by_class_type that returns the first node whatever its type
FindAnyNode(g, type) == IF g = <<>> THEN 0 ELSE 1

\* find_node_by_class_type, lines 372-386: the first node of the type in
\* iteration order, 0 for None
find_node_by_class_type(g, type) ==
    IF \E i \in 1..Len(g) : g[i].class_type = type
    THEN CHOOSE i \in 1..Len(g) :
            /\ g[i].class_type = type
            /\ \A j \in 1..(i - 1) : g[j].class_type # type
    ELSE 0

\* the first of the types that the graph has a node of (lines 277-280, 329-331,
\* 344-346); 0 when it has none
RECURSIVE FindFirstOf(_, _)
FindFirstOf(g, types) ==
    IF types = <<>> THEN 0
    ELSE IF find_node_by_class_type(g, Head(types)) # 0
    THEN find_node_by_class_type(g, Head(types))
    ELSE FindFirstOf(g, Tail(types))

Has(g, n, f) == f \in DOMAIN g[n].inputs

\* workflow_json[n]["inputs"][f] = v: the key is made when it is not there
Assign(g, n, f, v) ==
    [g EXCEPT ![n].inputs =
        [k \in (DOMAIN g[n].inputs) \cup {f} |-> IF k = f THEN v ELSE g[n].inputs[k]]]

\* lines 285-291 and 303-309: the prompt of a text encode node
SetText(g, n, prompt) ==
    IF Has(g, n, "text") THEN Assign(g, n, "text", prompt)
    ELSE IF Has(g, n, "text_g")
    THEN IF Has(g, n, "text_l")
         THEN Assign(Assign(g, n, "text_g", prompt), n, "text_l", prompt)
         ELSE Assign(g, n, "text_g", prompt)
    ELSE g

\* lines 276-280: the node of the positive prompt
PosTextNode(g) == FindFirstOf(g, text_encode_types)

\* lines 294-300: the node of the negative prompt, the first text encode node
\* in iteration order that is not the positive one
NegTextNode(g) ==
    LET others == {i \in 1..Len(g) :
                      /\ g[i].class_type \in Range(text_encode_types)
                      /\ i # PosTextNode(g)}
    IN IF others = {} THEN 0
       ELSE CHOOSE i \in others : \A j \in others : i <= j

\* lines 274-310
InjectPrompts(g, a) ==
    LET pos == PosTextNode(g)
        neg == NegTextNode(g)
        g1 == IF pos # 0 THEN SetText(g, pos, a.pos_prompt) ELSE g
    IN IF neg # 0 /\ a.neg_prompt # "" THEN SetText(g1, neg, a.neg_prompt) ELSE g1

\* lines 312-322
InjectSampler(g, a) ==
    LET n == find_node_by_class_type(g, "KSampler")
        g1 == IF a.seed # "None" THEN Assign(g, n, "seed", a.seed) ELSE g
        g2 == Assign(Assign(g1, n, "steps", a.steps), n, "cfg", a.cfg)
    IN IF n = 0 THEN g
       ELSE IF a.denoise_weight # "None"
       THEN Assign(g2, n, "denoise", a.denoise_weight)
       ELSE g2

\* lines 324-331
InjectLatent(g, a) ==
    LET n == FindFirstOf(g, <<"EmptyLatentImage", "EmptySD3LatentImage">>)
    IN IF n = 0 THEN g
       ELSE Assign(Assign(g, n, "width", a.width), n, "height", a.height)

\* lines 333-341
InjectLoadImage(g, a) ==
    LET n == find_node_by_class_type(g, "LoadImage")
    IN IF a.uploaded_filename = "None" \/ n = 0 THEN g
       ELSE IF Has(g, n, "image") THEN Assign(g, n, "image", a.uploaded_filename)
       ELSE IF Has(g, n, "filename") THEN Assign(g, n, "filename", a.uploaded_filename)
       ELSE g

\* lines 343-355
InjectSwitch(g, a) ==
    LET n == FindFirstOf(g, <<"AnySwitch", "Primitive">>)
    IN IF n = 0 THEN g
       ELSE IF Has(g, n, "value") THEN Assign(g, n, "value", a.mode_switch_value)
       ELSE IF Has(g, n, "text") THEN Assign(g, n, "text", a.mode_switch_value)
       ELSE IF Has(g, n, "select") THEN Assign(g, n, "select", a.mode_switch_value)
       ELSE g

\* lines 357-362
InjectQwen(g, a) ==
    LET n == find_node_by_class_type(g, "Qwen2-VL-Instruct")
    IN IF n # 0 /\ Has(g, n, "query") THEN Assign(g, n, "query", a.pos_prompt) ELSE g

\* lines 364-370
InjectGuidance(g, a) ==
    LET n == find_node_by_class_type(g, "FluxGuidance")
    IN IF n # 0 /\ Has(g, n, "guidance") THEN Assign(g, n, "guidance", a.cfg) ELSE g

\* _inject_parameters, lines 244-370: the graph after the call
InjectParameters(g, a) ==
    InjectGuidance(
      InjectQwen(
        InjectSwitch(
          InjectLoadImage(
            InjectLatent(
              InjectSampler(
                InjectPrompts(g, a), a), a), a), a), a), a)

\* generate has not been called: a request of defaults, no result
NoComfyRequest ==
    [prompt |-> "a cat", negative_prompt |-> "None", width |-> "1024",
     height |-> "768", seed |-> "None", steps |-> "None",
     guidance_scale |-> "None", source_image_url |-> "None", strength |-> "None"]

NoGenResult == [success |-> FALSE, images |-> <<>>, error |-> "none"]

InjectIdle ==
    /\ injPc = "idle"
    /\ template = <<>>
    /\ workflow_json = <<>>
    /\ args \in {a \in Arguments : a.neg_prompt = "" /\ a.seed = "None"
                     /\ a.uploaded_filename = "None" /\ a.denoise_weight = "None"}
    /\ request = NoComfyRequest
    /\ uploads = 0
    /\ queued = 0
    /\ genResult = NoGenResult

\* before the call: a loaded template and the arguments
InjectInit ==
    /\ injPc = "call"
    /\ template \in Graphs
    /\ workflow_json = template
    /\ args \in Arguments
    /\ request = NoComfyRequest
    /\ uploads = 0
    /\ queued = 0
    /\ genResult = NoGenResult

\* the call of _inject_parameters (no step of it raises on these graphs: every
\* node has its inputs mapping)
Inject ==
    /\ injPc = "call"
    /\ injPc' = "done"
    /\ workflow_json' = InjectParameters(workflow_json, args)
    /\ UNCHANGED <<template, args, request, uploads, queued, genResult>>
    /\ UNCHANGED <<waitVars, bflVars, routerVars>>

InjectNext == Inject

(***************************************************************************)
(* ComfyUIProvider.generate, lines 73-132, and execute_comfy_workflow,     *)
(* lines 134-242, up to the call of _inject_parameters.                    *)
(***************************************************************************)
\* the requests; "None" is Python's None
ComfyRequests ==
    [prompt : {"a cat"},
     negative_prompt : {"None", "blurry"},
     width : {"1024"},
     height : {"768"},
     seed : {"None", "0", "42"},
     steps : {"None", "0", "20"},
     guidance_scale : {"None", "0.0", "1.0"},
     source_image_url : {"None", "img.png"},
     strength : {"None", "0.0", "0.5"}]

\* Python's truth value of a request field
Truthy(v) == v \notin {"None", "", "0", "0.0"}

\* Python's  v or default
Or(v, default) == IF Truthy(v) THEN v ELSE default

\* line 120: request.strength or 0.7 if request.strength else None
DenoiseOf(req) ==
    IF Truthy(req.strength) THEN Or(req.strength, "0.7") ELSE "None"

\* lines 110-122, and line 171 for uploaded_filename: the arguments that reach
\* _inject_parameters before the upload
ArgsOf(req) ==
    [pos_prompt |-> req.prompt,
     neg_prompt |-> Or(req.negative_prompt, ""),
     seed |-> req.seed,
     steps |-> Or(req.steps, "28"),
     cfg |-> Or(req.guidance_scale, "3.5"),
     width |-> req.width,
     height |-> req.height,
     uploaded_filename |-> "None",
     denoise_weight |-> DenoiseOf(req),
     mode_switch_value |-> IF req.source_image_url # "None" THEN "I2I" ELSE "T2I"]

ComfyFailure(msg) == [success |-> FALSE, images |-> <<>>, error |-> msg]

\* what generate finds of the workflow file: it is there, valid and parsable,
\* or one of the three is not so
WorkflowFiles == {"ok", "missing", "invalid", "unparsable"}

\* lines 84-122 and 165-167: the checks of the workflow file, the arguments,
\* the load of the graph
GenerateArgs ==
    /\ injPc = "request"
    /\ \E file \in WorkflowFiles :
          IF file = "ok"
          THEN /\ injPc' = "upload"
               /\ args' = ArgsOf(request)
               /\ UNCHANGED genResult
          ELSE /\ injPc' = "failed"
               /\ genResult' = ComfyFailure(
                     IF file = "missing" THEN "Workflow file not found"
                     ELSE IF file = "invalid" THEN "Workflow validation failed"
                     ELSE "JSONDecodeError")
               /\ UNCHANGED args
    /\ UNCHANGED <<template, workflow_json, request, uploads, queued>>
    /\ UNCHANGED <<waitVars, bflVars, routerVars>>

\* an upload whose outcome is not tested
UploadFailedNever(name) == FALSE

\* line 176: not uploaded_filename
UploadFailed(name) == ~Truthy(name)

\* what upload_image returns: None after an exception of the fetch, the
\* decoding or the post (lines 481-483), else the name the server gave
UploadNames == {"None", "", "up.png"}

\* lines 170-175 with upload_image (lines 435-483): the upload of the source
\* image; upload_image catches what fetching, decoding or posting raises and
\* returns None, and execute_comfy_workflow raises ValueError then
Upload ==
    /\ injPc = "upload"
    /\ IF request.source_image_url = "None"
       THEN /\ injPc' = "call"
            /\ UNCHANGED <<args, uploads, genResult>>
       ELSE /\ uploads' = uploads + 1
            /\ \E name \in UploadNames :
                  IF UploadFailed(name)
                  THEN /\ injPc' = "failed"
                       /\ genResult' = ComfyFailure("Failed to upload input image")
                       /\ UNCHANGED args
                  ELSE /\ injPc' = "call"
                       /\ args' = [args EXCEPT !.uploaded_filename = name]
                       /\ UNCHANGED genResult
    /\ UNCHANGED <<template, workflow_json, request, queued>>
    /\ UNCHANGED <<waitVars, bflVars, routerVars>>

\* the templates of the generate calls: graphs of at most one node
GenTemplates == {g \in Graphs : Len(g) <= 1}

GenerateInit ==
    /\ injPc = "request"
    /\ template \in GenTemplates
    /\ workflow_json = template
    /\ request \in ComfyRequests
    /\ args = ArgsOf(NoComfyRequest)
    /\ uploads = 0
    /\ queued = 0
    /\ genResult = NoGenResult

GenerateNext ==
    \/ GenerateArgs
    \/ Upload
    \/ Inject

\* lines 195-199: queue_prompt (lines 388-403) posts the graph once; an
\* exception of the post ends the call with a failure result, else
\* wait_for_completion is called
QueuePrompt ==
    /\ injPc = "done"
    /\ pc = "unqueued"
    /\ queued' = queued + 1
    /\ \/ /\ injPc' = "failed"
          /\ genResult' = ComfyFailure("URLError")
          /\ UNCHANGED pc
       \/ /\ injPc' = "queued"
          /\ pc' = "start"
          /\ UNCHANGED genResult
    /\ UNCHANGED <<template, workflow_json, args, request, uploads>>
    /\ UNCHANGED <<WEBSOCKET_AVAILABLE, now, start_time, ws_start, connected, job,
                   event, todo, images, ret, result, mode, downgrades, pushErr,
                   seen, retrieved, fault, lateQuery, reqNo, prev, early>>
    /\ UNCHANGED <<bflVars, routerVars>>

\* no job is queued yet, so there is nothing to wait for
WaitUnqueued ==
    /\ WEBSOCKET_AVAILABLE \in BOOLEAN
    /\ pc = "unqueued"
    /\ now = 0
    /\ start_time = 0
    /\ ws_start = 0
    /\ connected = FALSE
    /\ job = pending
    /\ event = FALSE
    /\ todo = <<>>
    /\ images = <<>>
    /\ ret = NoRet
    /\ result = NoResult
    /\ mode = "none"
    /\ downgrades = 0
    /\ pushErr = "none"
    /\ seen = "none"
    /\ retrieved = [a \in Artifacts |-> 0]
    /\ fault = FALSE
    /\ lateQuery = FALSE
    /\ reqNo = 1
    /\ early = FALSE
    /\ prev = NoPrev

\* the templates and requests of the whole calls: no node or a sampler node,
\* text-to-image or image editing
ComfyTemplates ==
    {g \in GenTemplates : \A i \in DOMAIN g : g[i].class_type = "KSampler"}

ComfyCalls ==
    {r \in ComfyRequests : /\ r.negative_prompt = "None"
                           /\ r.seed = "None"
                           /\ r.steps = "None"
                           /\ r.guidance_scale = "None"
                           /\ r.strength \in {"None", "0.5"}}

ComfyInit ==
    /\ injPc = "request"
    /\ template \in ComfyTemplates
    /\ workflow_json = template
    /\ request \in ComfyCalls
    /\ args = ArgsOf(NoComfyRequest)
    /\ uploads = 0
    /\ queued = 0
    /\ genResult = NoGenResult

AdapterNext ==
    \/ GenerateArgs
    \/ Upload
    \/ Inject
    \/ QueuePrompt
    \/ BackendFinish
    \/ WaitStart
    \/ WsConnect
    \/ WsRecv
    \/ WsLoopExit
    \/ WsHistory
    \/ WsFetch
    \/ PollIteration
    \/ PollFetch
    \/ PollTimeout
    \/ SubmitPrimary
    \/ SubmitAlternative
    \/ SubmitExhausted
    \/ BflBackendStep
    \/ BflPoll

\* the call of generate has ended
CallEnded == injPc = "failed" \/ pc = "done" \/ bflPc = "done"

\* what it gave to its caller
Returned ==
    IF bflPc = "done" THEN bflResult
    ELSE IF injPc = "failed" THEN genResult
    ELSE result

WaitIdle ==
    /\ WaitInit
    /\ ~WEBSOCKET_AVAILABLE

WaitNext ==
    \/ BackendFinish
    \/ WaitStart
    \/ WsConnect
    \/ WsRecv
    \/ WsLoopExit
    \/ WsHistory
    \/ WsFetch
    \/ PollIteration
    \/ PollFetch
    \/ PollTimeout
    \/ NextRequest

RouterIdle ==
    /\ providers = {}
    /\ routing_rules = DefaultRouting
    /\ fluxModel = DefaultFluxModel
    /\ rq = [c \in Callers |-> NewSlot]
    /\ StartIdle
    /\ OpenAIIdle

Init == WaitInit /\ BflIdle /\ RouterIdle /\ InjectIdle

Next == WaitNext

\* the waiter of the local renderer
Spec == Init /\ [][Next]_vars

\* the poll loop of the hosted-model adapter
InitBfl == WaitIdle /\ BflInit /\ RouterIdle /\ InjectIdle

SpecBfl == InitBfl /\ [][BflNext]_vars

\* one _generate_bfl call from its submission on
InitSubmit == WaitIdle /\ SubmitInit /\ RouterIdle /\ InjectIdle

SpecSubmit == InitSubmit /\ [][SubmitNext]_vars

\* the router with its callers
InitRouter == WaitIdle /\ BflIdle /\ RouterInit /\ InjectIdle

SpecRouter == InitRouter /\ [][RouterNext]_vars

\* one _inject_parameters call on a loaded template
InitInject == WaitIdle /\ BflIdle /\ RouterIdle /\ InjectInit

SpecInject == InitInject /\ [][InjectNext]_vars

\* the poll loop of the hosted backend with its thread going on: every
\* iteration's sleep and GET come back (lines 433-440)
SpecBflLive == InitBfl /\ [][BflNext]_vars /\ WF_vars(BflPoll)

\* one generate call of the ComfyUI adapter up to the injected graph
InitGenerate == WaitIdle /\ BflIdle /\ RouterIdle /\ GenerateInit

SpecGenerate == InitGenerate /\ [][GenerateNext]_vars

\* one request given to an adapter's generate: the ComfyUI adapter's, or the
\* Flux adapter's at the BFL host (router, line 293)
AdapterInit ==
    /\ WaitUnqueued
    /\ RouterIdle
    /\ \/ ComfyInit /\ BflIdle
       \/ InjectIdle /\ SubmitInit /\ ~WEBSOCKET_AVAILABLE

\* the construction of the router
InitStart ==
    /\ WaitIdle /\ BflIdle /\ InjectIdle
    /\ routing_rules = DefaultRouting
    /\ fluxModel = DefaultFluxModel
    /\ rq = [c \in Callers |-> NewSlot]
    /\ OpenAIIdle
    /\ StartInit

SpecStart == InitStart /\ [][StartNext]_vars

\* one generate call of the OpenAI adapter
InitOpenAI ==
    /\ WaitIdle /\ BflIdle /\ InjectIdle
    /\ providers = {"openai"}
    /\ routing_rules = DefaultRouting
    /\ fluxModel = DefaultFluxModel
    /\ rq = [c \in Callers |-> NewSlot]
    /\ StartIdle
    /\ OpenAIInit

SpecOpenAI == InitOpenAI /\ [][OpenAINext]_vars

\* one request from the adapter's generate to its result
SpecAdapter == AdapterInit /\ [][AdapterNext]_vars

(***************************************************************************)
(* Claims about wait_for_completion.                                       *)
(***************************************************************************)
NoneRetrieved == \A a \in Artifacts : retrieved[a] = 0

\* each descriptor of the job fetched once, in descriptor order, nothing else
RetrievedOnce(h) ==
    \A a \in Artifacts :
        retrieved[a] = (IF a \in Range(Descriptors(h)) THEN 1 ELSE 0)

PushPcs == {"ws_connect", "ws_loop", "ws_history", "ws_fetch"}
PollPcs == {"poll_loop", "poll_fetch"}

\* C1: when the backend reports a terminal error status for the job, the wait
\* ends by raising the backend's execution error (not a return, not a
\* timeout), and no get_image call was made for the job.
C1_ErrorStatusRaisesExecutionError ==
    ErroredJob =>
        /\ ret.kind = "raise"
        /\ ret.exc = "ExecutionError"
        /\ NoneRetrieved

\* C2: when the job reaches no terminal status before the deadline, the wait
\* ends with TimeoutError and no get_history call is issued after the
\* deadline (start_time + timeout) has passed.
C2_NoTerminalStatusRaisesTimeout ==
    TimedOutJob =>
        /\ ret.kind = "raise"
        /\ ret.exc = "TimeoutError"
        /\ ~lateQuery

\* C3: in the same waiting mode, the failure the caller gets for a job that
\* exceeded the timeout and the failure it gets for a job the backend
\* reported as errored are never the same.
C3_TimeoutDistinctFromBackendError ==
    /\ (prev.cause = "timeout" /\ ErroredJob /\ prev.mode = mode)
           => prev.error # result.error
    /\ (prev.cause = "error" /\ TimedOutJob /\ prev.mode = mode)
           => prev.error # result.error

\* C4: when the history shows the job Ready with N descriptors (N >= 0), the
\* wait returns the N payloads in descriptor order after exactly N get_image
\* calls, in push mode and in poll mode.
C4_ReadyReturnsAllArtifacts ==
    (Done /\ seen = "success" /\ CleanRun) =>
        /\ ret.kind = "return"
        /\ ret.images = Descriptors(job)
        /\ RetrievedOnce(job)

\* C5: push mode is tried first; any exception of push mode moves the wait to
\* poll mode, at most once; poll mode is never left for push mode; and the
\* exception of push mode is never what the wait raises to its caller.
C5_State ==
    /\ downgrades <= 1
    /\ (mode = "push") => (WEBSOCKET_AVAILABLE /\ downgrades = 0 /\ pushErr = "none")
    /\ (mode = "poll" /\ WEBSOCKET_AVAILABLE) => (downgrades = 1 /\ pushErr # "none")
    /\ (pushErr # "none") => (mode = "poll" /\ pc \in PollPcs \cup {"done"} /\ ~connected)
    /\ (Done /\ pushErr # "none") => ~(ret.kind = "raise" /\ ret.exc = pushErr)
    /\ (pc \in PushPcs) => mode = "push"

C5_PushFirstThenPollOnce ==
    /\ []C5_State
    /\ [][(mode = "poll" /\ reqNo' = reqNo) => mode' = "poll"]_vars

\* C5 witness: push mode raised on connect and the wait was finished by poll
\* mode with the job's images
C5_Witness ==
    /\ Done
    /\ pushErr = "connect"
    /\ downgrades = 1
    /\ mode = "poll"
    /\ ret.kind = "return"
    /\ ret.images # <<>>

\* C6: when push mode raises (on connect, while receiving, or during the
\* retrieval of the outputs) and poll mode's own calls all answer, no artifact
\* of the job is retrieved more than once over the whole wait.
C6_NoDuplicateFetchAfterDowngrade ==
    (pushErr # "none" /\ ~fault) =>
        /\ mode = "poll"
        /\ \A a \in Artifacts : retrieved[a] <= 1

\* C7: no received message that is not this job's completion event makes push
\* mode raise: the waiter goes on receiving and is not moved to poll mode by it.
C7_OtherMessagesIgnored ==
    pushErr \notin {"JSONDecodeError", "AttributeError"}

\* the errors of a status query that pass with time: not-found (the record is
\* not there yet) and errors below HTTP (connection refused or reset)
Transient == {"HTTP404", "URLError"}

C9_BflNotFoundRetried ==
    ~(bflPc = "done" /\ bflLast = "404")

(***************************************************************************)
(* Claims about the router.                                                *)
(***************************************************************************)
\* C10: a model override made by routing lasts for its call only: once no
\* request is in flight the shared Flux adapter has its configured model
\* again, and a request that is routed to the adapter without an override
\* after the others were handled runs with the configured model.
C10_ModelOverrideScopedToCall ==
    /\ (\A c \in Callers : rq[c].pc # "selected") => fluxModel = DefaultFluxModel
    /\ \A c \in Callers :
        (/\ rq[c].pc = "done"
         /\ rq[c].alone
         /\ rq[c].provider = "flux"
         /\ rq[c].override = "none")
            => rq[c].usedModel = DefaultFluxModel

\* C11: requests handled concurrently are independent: a request routed to
\* the Flux adapter with a model override is generated with the model that
\* was selected for it, under every interleaving with the other caller.
C11_ConcurrentRequestsKeepTheirModel ==
    \A c \in Callers :
        (/\ rq[c].pc = "done"
         /\ rq[c].provider = "flux"
         /\ rq[c].override # "none")
            => rq[c].usedModel = rq[c].override

\* step 4 of the selection algorithm: the default provider if registered,
\* else the first registered provider of the fallback list
Step4(provs, rules) ==
    IF rules.default_provider \in provs THEN rules.default_provider
    ELSE FirstRegistered(rules.fallback_chain, provs)

\* C12: a request whose provider override names an unregistered provider is
\* resolved by step 4: the default provider if registered, else the first
\* registered provider of the fallback list.
C12_UnregisteredOverrideUsesStep4 ==
    \A c \in Callers :
        (/\ rq[c].pc # "new"
         /\ rq[c].req.provider # "none"
         /\ rq[c].req.provider \notin providers)
            => rq[c].provider = Step4(providers, routing_rules)

\* C13: a request without override that has a source image and a style tag
\* goes to the provider of the img2img rule whenever that provider is
\* registered, whatever the style rule says.
C13_FeatureRuleBeforeStyleRule ==
    \A c \in Callers :
        (/\ rq[c].pc # "new"
         /\ rq[c].req.provider = "none"
         /\ rq[c].req.source
         /\ rq[c].req.style # "none"
         /\ routing_rules.img2img.present
         /\ routing_rules.img2img.provider \in providers)
            => rq[c].provider = routing_rules.img2img.provider

\* C13 witness: such a request was dispatched while its style rule names
\* another registered provider
C13_Witness ==
    \E c \in Callers :
        /\ rq[c].pc = "done"
        /\ rq[c].req.provider = "none"
        /\ rq[c].req.source
        /\ rq[c].req.style # "none"
        /\ routing_rules.img2img.present
        /\ routing_rules.img2img.provider \in providers
        /\ routing_rules.style_routing[rq[c].req.style].provider \in providers
        /\ routing_rules.style_routing[rq[c].req.style].provider
               # routing_rules.img2img.provider
        /\ rq[c].usedModel # "none"

\* the selection algorithm in strict order, first match wins
Ordered(req, provs, rules) ==
    IF req.provider # "none" /\ req.provider \in provs THEN req.provider
    ELSE IF /\ req.provider = "none" /\ req.source
            /\ rules.img2img.present /\ rules.img2img.provider \in provs
    THEN rules.img2img.provider
    ELSE IF /\ req.provider = "none" /\ req.mask
            /\ rules.inpainting.present /\ rules.inpainting.provider \in provs
    THEN rules.inpainting.provider
    ELSE IF /\ req.provider = "none" /\ req.style # "none"
            /\ rules.style_routing[req.style].present
            /\ rules.style_routing[req.style].provider \in provs
    THEN rules.style_routing[req.style].provider
    ELSE Step4(provs, rules)

\* C14: for every request and registry the provider dispatched to is the
\* result of the ordered algorithm: override, feature rule, style rule,
\* default provider, fallback list.
C14_DispatchFollowsOrderedAlgorithm ==
    \A c \in Callers :
        rq[c].pc # "new" => rq[c].provider = Ordered(rq[c].req, providers, routing_rules)

\* C15: with no provider registered every request ends with the failure
\* result that names the missing provider, and no adapter is called.
C15_EmptyRegistryGivesFailureResult ==
    providers = {} =>
        \A c \in Callers :
            /\ rq[c].pc # "selected"
            /\ rq[c].pc = "done" =>
                  /\ rq[c].provider = "None"
                  /\ rq[c].error = "No available image providers"
                  /\ rq[c].usedModel = "none"

\* C15 witness: both callers got the failure result from an empty registry
C15_Witness ==
    /\ providers = {}
    /\ \A c \in Callers :
          rq[c].pc = "done" /\ rq[c].error = "No available image providers"

(***************************************************************************)
(* Claims about the submission of _generate_bfl.                           *)
(***************************************************************************)
\* the alternatives of the family that are not the primary endpoint itself
\* (which has answered already), in their listed order
AlternativesLeft(m, primary) ==
    LET Other(u) == u # primary
    IN SelectSeq(Alternatives(m), Other)

\* C16: after a not-found answer of the primary endpoint the alternatives are
\* contacted in their listed order, none is contacted after one accepted the
\* job, all are contacted when none accepts, and every status query goes to
\* the locator the accepting endpoint returned.
C16_AlternativesInOrderThenPollAccepted ==
    (answers # <<>> /\ answers[1] = "404") =>
        LET left == AlternativesLeft(bfl_model, contacted[1])
            n == Len(contacted)
        IN /\ n - 1 <= Len(left)
           /\ \A i \in 2..n : contacted[i] = left[i - 1]
           /\ \A i \in 2..n : IsSuccess(answers[i]) => i = n
           /\ (bflPc = "done" /\ ~IsSuccess(answers[n])) => n - 1 = Len(left)
           /\ polled \subseteq {contacted[n]}
           /\ polled # {} => IsSuccess(answers[n])

\* C16 witness: the primary endpoint and the first alternative did not take
\* the job, the second did, and the job was polled to its end
C16_Witness ==
    /\ bflPc = "done"
    /\ Len(answers) = 3
    /\ answers[1] = "404"
    /\ answers[2] = "404"
    /\ answers[3] = "200"
    /\ polled = {contacted[3]}
    /\ bflResult.success

\* C17: an answer of an error class other than not-found, of the primary
\* endpoint or of an alternative, ends the submission with a failure: no
\* endpoint is contacted after it.
C17_OtherErrorsEndSubmission ==
    \A i \in 1..Len(answers) :
        answers[i] = "401" =>
            /\ i = Len(answers)
            /\ bflPc \in {"alternatives", "done"}
            /\ bflPc = "done" => ~bflResult.success

(***************************************************************************)
(* Claims about _inject_parameters.                                        *)
(***************************************************************************)
InjectDone == injPc = "done"

\* C18: the call introduces no field: every node has the input field names
\* it had, and the nodes and their types are the same.
C18_InjectionIntroducesNoField ==
    InjectDone =>
        /\ Len(workflow_json) = Len(template)
        /\ \A n \in 1..Len(template) :
              /\ workflow_json[n].class_type = template[n].class_type
              /\ DOMAIN workflow_json[n].inputs = DOMAIN template[n].inputs

\* the node types of the six roles: text encoder, sampler, size spec, image
\* loader, mode switch, guidance modifier
RoleTypes ==
    Range(text_encode_types) \cup
    {"KSampler", "EmptyLatentImage", "EmptySD3LatentImage", "LoadImage",
     "AnySwitch", "Primitive", "FluxGuidance"}

\* C19 as stated: whatever role types the graph lacks, the call ends (no
\* lookup of a missing node is used) and every node that is of none of the
\* role types is as it was.
C19_OtherNodesKeepTheirFields ==
    InjectDone =>
          \A n \in 1..Len(template) :
              template[n].class_type \notin RoleTypes
                  => workflow_json[n] = template[n]

\* C19 amended: whatever role types the graph lacks, the call ends (no
\* lookup of a missing node is used); every node that is of none of the
\* role types and no Qwen2-VL-Instruct node is as it was, and of the
\* Qwen2-VL-Instruct nodes only the first one's query field changes, to the
\* positive prompt.
C19_OtherNodesKeepTheirFieldsButQwen ==
    InjectDone =>
          \A n \in 1..Len(template) :
              template[n].class_type \notin RoleTypes =>
                 IF /\ template[n].class_type = "Qwen2-VL-Instruct"
                    /\ n = find_node_by_class_type(template, "Qwen2-VL-Instruct")
                 THEN workflow_json[n] =
                         [template[n] EXCEPT !.inputs.query = args.pos_prompt]
                 ELSE workflow_json[n] = template[n]

\* C19 witness: a graph without any node of the six roles went through the
\* call, with a SaveImage node and a Qwen2-VL-Instruct node in it
C19_Witness ==
    /\ InjectDone
    /\ \A n \in 1..Len(template) : template[n].class_type \notin RoleTypes
    /\ \E n \in 1..Len(template) : template[n].class_type = "SaveImage"
    /\ \E n \in 1..Len(template) :
          /\ template[n].class_type = "Qwen2-VL-Instruct"
          /\ workflow_json[n].inputs.query = args.pos_prompt

\* the text encode nodes of a graph, in iteration order
Encoders(g) ==
    LET IsEncoder(i) == g[i].class_type \in Range(text_encode_types)
    IN SelectSeq([i \in 1..Len(g) |-> i], IsEncoder)

\* the node holds the prompt in its text field (text_g where it has no text)
HoldsPrompt(node, prompt) ==
    IF "text" \in DOMAIN node.inputs THEN node.inputs.text = prompt
    ELSE IF "text_g" \in DOMAIN node.inputs THEN node.inputs.text_g = prompt
    ELSE TRUE

\* C20: with two or more text encode nodes, of whatever types, the first in
\* iteration order holds the positive prompt, the second the negative prompt
\* (when the call has one), and the further ones are as they were.
C20_FirstPositiveSecondNegative ==
    (InjectDone /\ Len(Encoders(template)) >= 2) =>
        LET enc == Encoders(template)
        IN /\ HoldsPrompt(workflow_json[enc[1]], args.pos_prompt)
           /\ args.neg_prompt # ""
                 => HoldsPrompt(workflow_json[enc[2]], args.neg_prompt)
           /\ \A k \in 3..Len(enc) : workflow_json[enc[k]] = template[enc[k]]

(***************************************************************************)
(* Claims about ComfyUIProvider.generate.                                  *)
(***************************************************************************)
Sampler == find_node_by_class_type(template, "KSampler")

\* C21: the sampler node of the injected graph has the request's steps and
\* guidance scale whenever the request gives them (whatever the value), and
\* the request's seed when it gives one, else the template's seed.
C21_SamplerGetsRequestValues ==
    (InjectDone /\ Sampler # 0) =>
        LET inputs == workflow_json[Sampler].inputs
            before == template[Sampler].inputs
        IN /\ request.steps # "None" => inputs.steps = request.steps
           /\ request.guidance_scale # "None" => inputs.cfg = request.guidance_scale
           /\ request.seed # "None" => inputs.seed = request.seed
           /\ (request.seed = "None" /\ "seed" \in DOMAIN before)
                 => inputs.seed = before.seed

\* C22: for a request without source image, whatever its strength, the
\* sampler's denoise is what the template has (and is not there when the
\* template has none).
C22_DenoiseOnlyForImageEdit ==
    (InjectDone /\ Sampler # 0 /\ request.source_image_url = "None") =>
        LET inputs == workflow_json[Sampler].inputs
            before == template[Sampler].inputs
        IN IF "denoise" \in DOMAIN before
           THEN inputs.denoise = before.denoise
           ELSE "denoise" \notin DOMAIN inputs

(***************************************************************************)
(* Claims about the poll loop of FluxProvider._generate_bfl.               *)
(***************************************************************************)
\* the status the last query of a finished loop was answered with
LastStatus == IF bflLast = "200" THEN bflJob ELSE "none"

\* one query that is answered with a terminal status
TerminalQuery ==
    /\ attempt' = attempt + 1
    /\ bflLast' = "200"
    /\ bflJob \in {"Ready", "Error", "Failed"}

\* C30: the poll loop ends; it makes at most 120 status queries; the first
\* Ready gives success, the first Error or Failed the backend's failure, a
\* 120th query that is still not terminal the timeout failure; and no query
\* follows a terminal status.
C30_PollLoopTerminates ==
    /\ [](attempt <= 120)
    /\ []((bflPc = "done" /\ LastStatus = "Ready") => bflResult.success)
    /\ []((bflPc = "done" /\ LastStatus \in {"Error", "Failed"})
            => bflResult = BflFailure("BFL API error"))
    /\ []((bflPc = "done" /\ LastStatus \in {"absent", "Pending"})
            => (attempt = 120 /\ bflResult =
                  BflFailure("BFL API timeout - generation took too long")))
    /\ []((bflPc = "poll" /\ bflLast = "200") => (attempt < 120 /\ bflJob # "absent"))
    /\ [][TerminalQuery => bflPc' = "done"]_vars
    /\ [][bflPc = "done" => attempt' = attempt]_vars
    /\ <>(bflPc = "done")

C30_Witness ==
    /\ bflPc = "done"
    /\ attempt = 120
    /\ LastStatus = "Pending"
    /\ bflResult = BflFailure("BFL API timeout - generation took too long")

\* what the contract asks of a returned result
WellFormed(res) ==
    /\ res.success <=> res.error = "none"
    /\ res.success => res.images # <<>>
    /\ ~res.success => res.images = <<>>

\* C24: the result the hosted adapter returns has an error message exactly
\* when success is false, images (not none) when success is true, and no
\* image when success is false.
C24_ResultNeverPartial == bflPc = "done" => WellFormed(bflResult)

(***************************************************************************)
(* Claims about a job that ends before the event channel is open.          *)
(***************************************************************************)
\* the wait began in push mode and its job ended with images before the socket
\* was connected, so no completion event of it is delivered
EarlyJob ==
    /\ WEBSOCKET_AVAILABLE
    /\ early
    /\ job # pending
    /\ job.status = "success"
    /\ Descriptors(job) # <<>>

\* nothing failed but the receive of the silent channel, which timed out
SilentRun == ~fault /\ pushErr \in {"none", "WebSocketTimeoutException"}

\* C29: when the job ended with images before the event channel was open, a
\* wait in which no call fails ends with the job's images, not with an empty
\* result or a failure.
C29_EarlyJobStillReturnsImages ==
    (Done /\ EarlyJob /\ SilentRun) =>
        (result.success /\ result.images = Descriptors(job))

(***************************************************************************)
(* Claims about one request in an adapter.                                 *)
(***************************************************************************)
\* C23: whatever fails (the template, the upload, the validation, the
\* submission, the wait, the retrieval, an exception of the transport
\* included), the call ends with a result record, and a failure result has a
\* message; no exception is what the caller gets.
C23_EveryOutcomeIsAResult ==
    CallEnded =>
        /\ DOMAIN Returned = {"success", "images", "error"}
        /\ Returned.success \in BOOLEAN
        /\ ~Returned.success => Returned.error \notin {"none", ""}

\* an exception of the wait has become a failure result
C23_Witness ==
    /\ pc = "done"
    /\ ret.kind = "raise"
    /\ ~result.success
    /\ result.error = ret.exc

\* the upload of the request's reference image has failed
UploadHasFailed ==
    /\ uploads > 0
    /\ injPc # "upload"
    /\ ~Truthy(args.uploaded_filename)

\* C25: when the upload of the reference image fails, the request ends with
\* a failure result that reports the upload error, the upload was tried once,
\* and no job was submitted.
C25_UploadFailureAbortsRequest ==
    UploadHasFailed =>
        /\ CallEnded
        /\ Returned = ComfyFailure("Failed to upload input image")
        /\ uploads = 1
        /\ queued = 0
        /\ pc = "unqueued"
        /\ job = pending

C25_Witness ==
    /\ UploadHasFailed
    /\ request.source_image_url = "img.png"
    /\ injPc = "failed"
    /\ queued = 0

\* the submissions a backend acknowledged
Acknowledged ==
    (IF injPc = "queued" THEN 1 ELSE 0)
    + Cardinality({i \in DOMAIN answers : answers[i] = "200"})

\* a status query or a wait for the completion event has been made
Waited == pc \notin {"unqueued", "start"} \/ attempt > 0 \/ polled # {}

C27_RequestKeepsItsFields == oaPc = "done" => oaRequest = oaGiven

\* the probe of the local server passed: an endpoint answered, and those
\* asked before it were refused or not found
ProbePassed ==
    \E i \in Endpoints :
        /\ env.probe[i] = "ok"
        /\ \A j \in 1..(i - 1) : env.probe[j] \in {"URLError", "HTTPError"}

\* the providers whose check passed and whose constructor returned
Initialized ==
    {n \in Names :
        \/ n = "openai" /\ env.openai_key /\ ~env.openai_raises
        \/ n = "flux" /\ env.flux_key /\ ~env.flux_raises
        \/ n = "comfyui" /\ env.comfy_import /\ ProbePassed /\ ~env.comfy_raises}

Before(name) ==
    IF name = "openai" THEN {}
    ELSE IF name = "flux" THEN {"openai"}
    ELSE IF name = "comfyui" THEN {"openai", "flux"}
    ELSE Names

====
